---- MODULE Spec2Model ----
(***************************************************************************)
(* A model of SNLIData (dataset.py): the constructor's pipeline            *)
(*   build_word_set -> get_glove -> get_total (load x 3, finalization).    *)
(*                                                                         *)
(* A line of a partition file is represented by its columns as the code    *)
(* sees them after line.rstrip().split('\t') and cols[k].split(' '):       *)
(* [label, premise, hypothesis], the two sentences being the raw token     *)
(* lists, bracket tokens included.  A line of the pretrained file is       *)
(* [word, vec, ok]: cols[0], the numbers of cols[1:], and whether every    *)
(* field of cols[1:] parses with float().                                  *)
(*                                                                         *)
(* Numbers are exact rationals <<numerator, denominator>> in lowest terms: *)
(* the rounding of float64 arithmetic is not modelled.                     *)
(***************************************************************************)
EXTENDS Integers, Sequences, FiniteSets, TLC

\* ------------------------------------------------------------------ bounds
\* Records (non-header lines) over the three partition files together.
MaxRecords == 2
\* config.window_size ranges over 0..MaxWindow.
MaxWindow == 2
\* config.embedding_dim.
EmbeddingDim == 2

\* ------------------------------------------------------------- arithmetic
RECURSIVE GCD(_, _)
GCD(a, b) == IF b = 0 THEN a ELSE GCD(b, a % b)

Abs(x) == IF x < 0 THEN -x ELSE x

\* The rational n/d (d > 0) in lowest terms.
Rat(n, d) ==
    LET g == GCD(Abs(n), d) IN IF n = 0 THEN <<0, 1>> ELSE <<n \div g, d \div g>>

RatAdd(x, y) == Rat(x[1] * y[2] + y[1] * x[2], x[2] * y[2])

RatDivInt(x, k) == Rat(x[1], x[2] * k)

\* A list or an array of numbers, as a sequence of its elements.
Array(f) == f \o <<>>

\* np.zeros(n)
Zeros(n) == Array([i \in 1..n |-> <<0, 1>>])

\* np.add(u, v), for vectors of one length
VecAdd(u, v) == Array([i \in 1..Len(u) |-> RatAdd(u[i], v[i])])

\* u /= k
VecDiv(u, k) == Array([i \in 1..Len(u) |-> RatDivInt(u[i], k)])

\* [float(l) for l in cols[1:]]
ParseVector(fields) == Array([i \in 1..Len(fields) |-> <<fields[i], 1>>])

\* x; F(x): the value of x is computed before F goes on with it, as a
\* Python statement has run when the next begins.
Then(x, F(_)) == CHOOSE out \in {F(a) : a \in {x}} : TRUE

\* d[k] = v on a dict
DictSet(d, k, v) == (k :> v) @@ d

EmptyDict == <<>>

\* ---------------------------------------------------------------- inputs
Paths == <<"train", "valid", "test">>

label_dict == [entailment |-> 0, contradiction |-> 1, neutral |-> 2]

Line(l, p, h) == [label |-> l, premise |-> p, hypothesis |-> h]

\* The header row of an SNLI file, and a first line that reads as a record.
HeaderLines ==
    { Line("gold_label", <<"sentence1_binary_parse">>, <<"sentence2_binary_parse">>),
      Line("entailment", <<"(", "h", "a", ")">>, <<"h">>) }

RecordLines ==
    { Line("entailment", <<"(", "a", "b", "c", ")">>, <<"(", "x", "b", ")">>),
      Line("neutral", <<"b">>, <<"c", "x", "b">>),
      Line("contradiction", <<"b", "a">>, <<"(", "a", ")">>),
      Line("-", <<"d", "a">>, <<"d">>),
      Line("bogus", <<"u", "a">>, <<"a">>) }

GloveNumbers(w) ==
    [i \in 1..EmbeddingDim |->
        IF w = "a" THEN (IF i = 1 THEN 1 ELSE 0) ELSE (IF i = 1 THEN 3 ELSE i)]

GloveLine(w, good) == [word |-> w, vec |-> GloveNumbers(w), ok |-> good]

\* The pretrained files tried: none of the words, "a" alone, "a" and "c",
\* an unparsable line of a word outside the data, an unparsable line of "a".
GloveFiles ==
    { <<>>,
      <<GloveLine("a", TRUE)>>,
      <<GloveLine("a", TRUE), GloveLine("c", TRUE)>>,
      <<GloveLine("zzz", FALSE), GloveLine("c", TRUE), GloveLine("a", TRUE)>>,
      <<GloveLine("c", TRUE), GloveLine("a", FALSE)>> }

\* ----------------------------------------------------------------- state
VARIABLES
    files,                  \* path -> the lines of the file
    glove,                  \* the lines of the pretrained file
    window_size,            \* config.window_size
    pc,                     \* the constructor's position
    path,                   \* which of the three paths is being read (1..3)
    idx,                    \* the running loop's index (0-based)
    err,                    \* the exception that ended construction, or "none"
    word_set,
    word2vec,               \* get_glove's local table
    word_embeds,
    unseen_word_dict,
    unseen_keys,            \* unseen_word_dict's keys in insertion order
    unseen_word_count_dict,
    data,                   \* load's local list
    train_data, valid_data, test_data,
    embed_writes            \* word -> number of assignments word_embeds[w] = ...

vars == <<files, glove, window_size, pc, path, idx, err, word_set, word2vec,
          word_embeds, unseen_word_dict, unseen_keys, unseen_word_count_dict,
          data, train_data, valid_data, test_data, embed_writes>>

inputs == <<files, glove, window_size>>

\* ------------------------------------------------------------ the parser
IsBracket(w) == w = "(" \/ w = ")"

\* [w for w in cols[k].split(' ') if w != '(' and w != ')']
StripBrackets(raw) == SelectSeq(raw, LAMBDA w : ~IsBracket(w))

Range(s) == {s[i] : i \in 1..Len(s)}

\* A loop that skips no first line.
IsHeaderNever(i) == FALSE

\* for idx, line in enumerate(f): if idx == 0: continue
IsHeader(i) == i = 0

\* if cols[0] == '-': continue
IsSkipped(line) == line.label = "-"

CurFile == files[Paths[path]]
AtEOF == idx >= Len(CurFile)
CurLine == CurFile[idx + 1]

\* --------------------------------------------------------- build_word_set
\* A vocabulary built from the premises alone.
UpdateDictPremiseOnly(line) == Range(StripBrackets(line.premise))

\* for w in premise+hypothesis: self.word_set.add(w)
UpdateDictWords(line) ==
    Range(StripBrackets(line.premise) \o StripBrackets(line.hypothesis))

BuildSkipHeader ==
    /\ pc = "build_word_set" /\ ~AtEOF /\ IsHeader(idx)
    /\ idx' = idx + 1
    /\ UNCHANGED <<inputs, pc, path, err, word_set, word2vec, word_embeds,
                   unseen_word_dict, unseen_keys, unseen_word_count_dict,
                   data, train_data, valid_data, test_data, embed_writes>>

BuildSkipDash ==
    /\ pc = "build_word_set" /\ ~AtEOF /\ ~IsHeader(idx) /\ IsSkipped(CurLine)
    /\ idx' = idx + 1
    /\ UNCHANGED <<inputs, pc, path, err, word_set, word2vec, word_embeds,
                   unseen_word_dict, unseen_keys, unseen_word_count_dict,
                   data, train_data, valid_data, test_data, embed_writes>>

BuildAddWords ==
    /\ pc = "build_word_set" /\ ~AtEOF /\ ~IsHeader(idx) /\ ~IsSkipped(CurLine)
    /\ word_set' = word_set \cup UpdateDictWords(CurLine)
    /\ idx' = idx + 1
    /\ UNCHANGED <<inputs, pc, path, err, word2vec, word_embeds,
                   unseen_word_dict, unseen_keys, unseen_word_count_dict,
                   data, train_data, valid_data, test_data, embed_writes>>

\* update_dict returns; after the third file __init__ goes on to get_glove
BuildEndOfFile ==
    /\ pc = "build_word_set" /\ AtEOF
    /\ idx' = 0
    /\ IF path < Len(Paths)
          THEN path' = path + 1 /\ pc' = pc
          ELSE path' = 1 /\ pc' = "get_glove"
    /\ UNCHANGED <<inputs, err, word_set, word2vec, word_embeds,
                   unseen_word_dict, unseen_keys, unseen_word_count_dict,
                   data, train_data, valid_data, test_data, embed_writes>>

\* ---------------------------------------------------------------- get_glove
\* A loader that parses every line.
GloveRetainAll(line) == TRUE

\* if cols[0] in self.word_set
GloveRetained(line) == line.word \in word_set

GloveDiscard ==
    /\ pc = "get_glove" /\ idx < Len(glove) /\ ~GloveRetained(glove[idx + 1])
    /\ idx' = idx + 1
    /\ UNCHANGED <<inputs, pc, path, err, word_set, word2vec, word_embeds,
                   unseen_word_dict, unseen_keys, unseen_word_count_dict,
                   data, train_data, valid_data, test_data, embed_writes>>

GloveStore ==
    /\ pc = "get_glove" /\ idx < Len(glove) /\ GloveRetained(glove[idx + 1])
    /\ glove[idx + 1].ok
    /\ word2vec' = DictSet(word2vec, glove[idx + 1].word,
                           ParseVector(glove[idx + 1].vec))
    /\ idx' = idx + 1
    /\ UNCHANGED <<inputs, pc, path, err, word_set, word_embeds,
                   unseen_word_dict, unseen_keys, unseen_word_count_dict,
                   data, train_data, valid_data, test_data, embed_writes>>

\* float(l) raises ValueError
GloveMalformed ==
    /\ pc = "get_glove" /\ idx < Len(glove) /\ GloveRetained(glove[idx + 1])
    /\ ~glove[idx + 1].ok
    /\ pc' = "error" /\ err' = "ValueError"
    /\ UNCHANGED <<inputs, path, idx, word_set, word2vec, word_embeds,
                   unseen_word_dict, unseen_keys, unseen_word_count_dict,
                   data, train_data, valid_data, test_data, embed_writes>>

\* 100*len(word2vec)/len(self.word_set) with an empty word_set
GloveZeroDivision ==
    /\ pc = "get_glove" /\ idx >= Len(glove) /\ word_set = {}
    /\ pc' = "error" /\ err' = "ZeroDivisionError"
    /\ UNCHANGED <<inputs, path, idx, word_set, word2vec, word_embeds,
                   unseen_word_dict, unseen_keys, unseen_word_count_dict,
                   data, train_data, valid_data, test_data, embed_writes>>

\* return word2vec; __init__ sets word_embeds and the two empty dicts and
\* calls get_total, which calls load(train_data_path)
GloveReturn ==
    /\ pc = "get_glove" /\ idx >= Len(glove) /\ word_set # {}
    /\ word_embeds' = word2vec
    /\ unseen_word_dict' = EmptyDict
    /\ unseen_keys' = <<>>
    /\ unseen_word_count_dict' = EmptyDict
    /\ pc' = "load" /\ path' = 1 /\ idx' = 0 /\ data' = <<>>
    /\ UNCHANGED <<inputs, err, word_set, word2vec,
                   train_data, valid_data, test_data, embed_writes>>

\* --------------------------------------------------------------------- load
\* The accumulator approximate_unseen works on: unseen_word_dict (with its
\* keys in insertion order) and unseen_word_count_dict.
Acc(d, k, c) == [dict |-> d, keys |-> k, count |-> c]

\* A range that starts one offset early.
RangeFirstEarly(ws) == -ws - 1

\* A range that leaves out its last offset: range(-window_size, window_size).
RangeStopShort(ws) == ws

\* range(-window_size, window_size + 1)
RangeFirst(ws) == -ws
RangeStop(ws) == ws + 1

\* if r != 0 and 0 <= w_idx + r < sentence_len
\*         and sentence[w_idx + r] in self.word_embeds
\* (i is the 1-based position w_idx + 1)
Contributes(sentence, i, r, we) ==
    /\ r # 0
    /\ 1 <= i + r /\ i + r <= Len(sentence)
    /\ sentence[i + r] \in DOMAIN we

\* A count that starts at 0 with the first contribution.
CountUpFromZero(count, w) ==
    IF w \in DOMAIN count THEN DictSet(count, w, count[w] + 1)
                          ELSE DictSet(count, w, 0)

\* self.unseen_word_count_dict[w] += 1, or = 1 when w has no count yet
CountUp(count, w) ==
    IF w \in DOMAIN count THEN DictSet(count, w, count[w] + 1)
                          ELSE DictSet(count, w, 1)

\* A running sum that keeps the last neighbour only.
SumUpOverwrite(dict, w, v) == DictSet(dict, w, v)

\* self.unseen_word_dict[w] = np.add(self.unseen_word_dict[w], neighbour)
SumUp(dict, w, v) == DictSet(dict, w, VecAdd(dict[w], v))

\* the body of the loop over r, from offset r on
RECURSIVE ContributeFrom(_, _, _, _, _, _)
ContributeFrom(sentence, i, r, ws, acc, we) ==
    IF r >= RangeStop(ws) THEN acc
    ELSE LET w == sentence[i]
             acc1 == IF Contributes(sentence, i, r, we)
                        THEN Acc(SumUp(acc.dict, w, we[sentence[i + r]]),
                                 acc.keys,
                                 CountUp(acc.count, w))
                        ELSE acc
         IN  Then(acc1, LAMBDA a : ContributeFrom(sentence, i, r + 1, ws, a, we))

\* if w not in self.unseen_word_dict: ... = np.zeros(embedding_dim)
FirstEncounter(acc, w) ==
    IF w \in DOMAIN acc.dict THEN acc
    ELSE Acc(DictSet(acc.dict, w, Zeros(EmbeddingDim)), Append(acc.keys, w),
             acc.count)

\* the loop over the positions of the sentence, from position i on
RECURSIVE ApproxFrom(_, _, _, _, _)
ApproxFrom(sentence, i, ws, acc, we) ==
    IF i > Len(sentence) THEN acc
    ELSE LET w == sentence[i]
             acc1 == IF w \notin DOMAIN we
                        THEN ContributeFrom(sentence, i, RangeFirst(ws), ws,
                                            FirstEncounter(acc, w), we)
                        ELSE acc
         IN  Then(acc1, LAMBDA a : ApproxFrom(sentence, i + 1, ws, a, we))

approximate_unseen(sentence, ws, acc, we) == ApproxFrom(sentence, 1, ws, acc, we)

\* approximate_unseen(premise); approximate_unseen(hypothesis)
ScanRecord(line, ws, acc, we) ==
    Then(approximate_unseen(StripBrackets(line.premise), ws, acc, we),
         LAMBDA a : approximate_unseen(StripBrackets(line.hypothesis), ws, a, we))

\* [premise, hypothesis, y]
Example(line) ==
    <<StripBrackets(line.premise), StripBrackets(line.hypothesis),
      label_dict[line.label]>>

\* self.label_dict[cols[0]] finds the key
KnownLabel(line) == line.label \in DOMAIN label_dict

LoadSkipHeader ==
    /\ pc = "load" /\ ~AtEOF /\ IsHeader(idx)
    /\ idx' = idx + 1
    /\ UNCHANGED <<inputs, pc, path, err, word_set, word2vec, word_embeds,
                   unseen_word_dict, unseen_keys, unseen_word_count_dict,
                   data, train_data, valid_data, test_data, embed_writes>>

LoadSkipDash ==
    /\ pc = "load" /\ ~AtEOF /\ ~IsHeader(idx) /\ IsSkipped(CurLine)
    /\ idx' = idx + 1
    /\ UNCHANGED <<inputs, pc, path, err, word_set, word2vec, word_embeds,
                   unseen_word_dict, unseen_keys, unseen_word_count_dict,
                   data, train_data, valid_data, test_data, embed_writes>>

\* A load that looks the label up after approximate_unseen has run.
LoadUnknownLabelLate ==
    /\ pc = "load" /\ ~AtEOF /\ ~IsHeader(idx) /\ ~IsSkipped(CurLine)
    /\ ~KnownLabel(CurLine)
    /\ LET acc == ScanRecord(CurLine, window_size,
                             Acc(unseen_word_dict, unseen_keys,
                                 unseen_word_count_dict),
                             word_embeds)
       IN  /\ unseen_word_dict' = acc.dict
           /\ unseen_keys' = acc.keys
           /\ unseen_word_count_dict' = acc.count
    /\ pc' = "error" /\ err' = "KeyError"
    /\ UNCHANGED <<inputs, path, idx, word_set, word2vec, word_embeds,
                   data, train_data, valid_data, test_data, embed_writes>>

\* y = self.label_dict[cols[0]] raises KeyError, before approximate_unseen
LoadUnknownLabel ==
    /\ pc = "load" /\ ~AtEOF /\ ~IsHeader(idx) /\ ~IsSkipped(CurLine)
    /\ ~KnownLabel(CurLine)
    /\ pc' = "error" /\ err' = "KeyError"
    /\ UNCHANGED <<inputs, path, idx, word_set, word2vec, word_embeds,
                   unseen_word_dict, unseen_keys, unseen_word_count_dict,
                   data, train_data, valid_data, test_data, embed_writes>>

LoadAppend ==
    /\ pc = "load" /\ ~AtEOF /\ ~IsHeader(idx) /\ ~IsSkipped(CurLine)
    /\ KnownLabel(CurLine)
    /\ LET acc == ScanRecord(CurLine, window_size,
                             Acc(unseen_word_dict, unseen_keys,
                                 unseen_word_count_dict),
                             word_embeds)
       IN  /\ unseen_word_dict' = acc.dict
           /\ unseen_keys' = acc.keys
           /\ unseen_word_count_dict' = acc.count
    /\ data' = Append(data, Example(CurLine))
    /\ idx' = idx + 1
    /\ UNCHANGED <<inputs, pc, path, err, word_set, word2vec, word_embeds,
                   train_data, valid_data, test_data, embed_writes>>

\* return data; get_total keeps it and loads the next path, or goes on to
\* the loop over unseen_word_dict
LoadReturn ==
    /\ pc = "load" /\ AtEOF
    /\ train_data' = IF path = 1 THEN data ELSE train_data
    /\ valid_data' = IF path = 2 THEN data ELSE valid_data
    /\ test_data' = IF path = 3 THEN data ELSE test_data
    /\ data' = <<>>
    /\ idx' = 0
    /\ IF path < Len(Paths)
          THEN path' = path + 1 /\ pc' = pc
          ELSE path' = path /\ pc' = "finalize"
    /\ UNCHANGED <<inputs, err, word_set, word2vec, word_embeds,
                   unseen_word_dict, unseen_keys, unseen_word_count_dict,
                   embed_writes>>

\* ---------------------------------------------------- get_total's last loop
\* for w in self.unseen_word_dict: the word of iteration idx
FinalWord == unseen_keys[idx + 1]

\* if w in self.unseen_word_count_dict
HasCount(w) == w \in DOMAIN unseen_word_count_dict

\* self.unseen_word_dict[w] /= self.unseen_word_count_dict[w]
\* self.word_embeds[w] = self.unseen_word_dict[w]
FinalizeAverage ==
    /\ pc = "finalize" /\ idx < Len(unseen_keys) /\ HasCount(FinalWord)
    /\ LET w == FinalWord
           v == VecDiv(unseen_word_dict[w], unseen_word_count_dict[w])
       IN  /\ unseen_word_dict' = DictSet(unseen_word_dict, w, v)
           /\ word_embeds' = DictSet(word_embeds, w, v)
           /\ embed_writes' =
                 DictSet(embed_writes, w,
                         IF w \in DOMAIN embed_writes THEN embed_writes[w] + 1
                                                      ELSE 1)
    /\ idx' = idx + 1
    /\ UNCHANGED <<inputs, pc, path, err, word_set, word2vec, unseen_keys,
                   unseen_word_count_dict, data, train_data, valid_data,
                   test_data>>

\* else: print(w)
FinalizePrint ==
    /\ pc = "finalize" /\ idx < Len(unseen_keys) /\ ~HasCount(FinalWord)
    /\ idx' = idx + 1
    /\ UNCHANGED <<inputs, pc, path, err, word_set, word2vec, word_embeds,
                   unseen_word_dict, unseen_keys, unseen_word_count_dict,
                   data, train_data, valid_data, test_data, embed_writes>>

\* return train_data, valid_data, test_data
GetTotalReturn ==
    /\ pc = "finalize" /\ idx >= Len(unseen_keys)
    /\ pc' = "done"
    /\ UNCHANGED <<inputs, path, idx, err, word_set, word2vec, word_embeds,
                   unseen_word_dict, unseen_keys, unseen_word_count_dict,
                   data, train_data, valid_data, test_data, embed_writes>>

\* ------------------------------------------------------------------- Init
Init ==
    /\ \E n1 \in 0..MaxRecords :
       \E n2 \in 0..(MaxRecords - n1) :
       \E n3 \in 0..(MaxRecords - n1 - n2) :
       \E h \in HeaderLines :
       \E r1 \in [1..n1 -> RecordLines] :
       \E r2 \in [1..n2 -> RecordLines] :
       \E r3 \in [1..n3 -> RecordLines] :
          files = [p \in Range(Paths) |->
                      <<h>> \o (IF p = "train" THEN r1
                                ELSE IF p = "valid" THEN r2 ELSE r3)]
    /\ glove \in GloveFiles
    /\ window_size \in 0..MaxWindow
    /\ pc = "build_word_set" /\ path = 1 /\ idx = 0 /\ err = "none"
    /\ word_set = {}
    /\ word2vec = EmptyDict
    /\ word_embeds = EmptyDict
    /\ unseen_word_dict = EmptyDict
    /\ unseen_keys = <<>>
    /\ unseen_word_count_dict = EmptyDict
    /\ data = <<>>
    /\ train_data = <<>> /\ valid_data = <<>> /\ test_data = <<>>
    /\ embed_writes = EmptyDict

\* ================================================================ claims
\* What the claims speak of, read off the inputs rather than off the run.

RecognizedLabels == {"entailment", "contradiction", "neutral"}

Sides == {"premise", "hypothesis"}

\* The non-header lines of file p that are not skipped ("-").
RecordPlaces == {<<p, k>> \in Range(Paths) \X (1..(MaxRecords + 1)) :
                    /\ 2 <= k /\ k <= Len(files[p])
                    /\ files[p][k].label # "-"}

\* The sentences of the retained records: <<path, line, side>>.
SentencePlaces == {<<pk[1], pk[2], sd>> : pk \in
                      {x \in RecordPlaces : files[x[1]][x[2]].label \in RecognizedLabels},
                   sd \in Sides}

SentenceAt(sp) == StripBrackets(files[sp[1]][sp[2]][sp[3]])

MaxSentenceLen == 5

\* The pretrained table is what get_glove returned: word2vec.
Covered(w) == w \in DOMAIN word2vec

\* The pairs (i, j) of the claim, each with its sentence: an occurrence of w
\* at i and a covered neighbour at j = i + r, 0 < |r| <= window_size.
Pairs(w) ==
    {<<sp, i, j>> \in SentencePlaces \X (1..MaxSentenceLen) \X (1..MaxSentenceLen) :
        /\ i <= Len(SentenceAt(sp)) /\ j <= Len(SentenceAt(sp))
        /\ SentenceAt(sp)[i] = w
        /\ j # i /\ j - i <= window_size /\ i - j <= window_size
        /\ Covered(SentenceAt(sp)[j])}

RECURSIVE SumOfNeighbours(_)
SumOfNeighbours(S) ==
    IF S = {} THEN Zeros(EmbeddingDim)
    ELSE LET t == CHOOSE x \in S : TRUE
         IN  VecAdd(word2vec[SentenceAt(t[1])[t[3]]], SumOfNeighbours(S \ {t}))

MeanOfNeighbours(w) == VecDiv(SumOfNeighbours(Pairs(w)), Cardinality(Pairs(w)))

OOV(w) == w \in word_set /\ ~Covered(w)

\* ---- C1
\* C1: after construction finishes every token of word_set has an entry in
\* word_embeds, and an OOV token that received no contribution has the zero
\* vector as its entry.
C1_EmbeddingCoverage ==
    pc = "done" =>
        \A w \in word_set :
            /\ w \in DOMAIN word_embeds
            /\ (OOV(w) /\ Pairs(w) = {}) => word_embeds[w] = Zeros(EmbeddingDim)

\* ---- C2
\* C2: for every OOV token with at least one contribution, the vector put
\* into word_embeds at finalization is the arithmetic mean of the pretrained
\* vectors of the pairs (i, j) of the whole corpus, and its contribution
\* count is the number of those pairs; a token with no such pair has no count.
C2_MeanOfContributions ==
    pc = "done" =>
        \A w \in word_set :
            OOV(w) =>
                IF Pairs(w) # {}
                   THEN /\ w \in DOMAIN unseen_word_count_dict
                        /\ unseen_word_count_dict[w] = Cardinality(Pairs(w))
                        /\ w \in DOMAIN word_embeds
                        /\ word_embeds[w] = MeanOfNeighbours(w)
                   ELSE w \notin DOMAIN unseen_word_count_dict

\* An OOV token averaged over contributions of more than one record, the
\* mean not a whole number.
C2_Witness ==
    /\ pc = "done"
    /\ \E w \in word_set :
          /\ OOV(w) /\ Cardinality(Pairs(w)) >= 3
          /\ Cardinality({<<t[1][1], t[1][2]>> : t \in Pairs(w)}) >= 2
          /\ word_embeds[w][1][2] # 1

\* ---- C9
\* Every in-window neighbour of w, at every occurrence in the retained
\* records of all partitions, is itself OOV.
OnlyOOVNeighbours(w) ==
    \A sp \in SentencePlaces :
        \A i \in 1..Len(SentenceAt(sp)) :
            SentenceAt(sp)[i] = w =>
                \A j \in 1..Len(SentenceAt(sp)) :
                    (j # i /\ j - i <= window_size /\ i - j <= window_size)
                        => ~Covered(SentenceAt(sp)[j])

\* C9: an OOV token with window_size = 0, or whose in-window neighbours are
\* all OOV, never receives a contribution: at every state its running sum,
\* once it has one, is the zero vector of the configured dimension, and no
\* contribution count is recorded for it.
C9_ZeroContribution ==
    \A w \in word_set :
        (OOV(w) /\ pc \in {"load", "finalize", "done", "error"}
                /\ (window_size = 0 \/ OnlyOOVNeighbours(w)))
            => /\ w \notin DOMAIN unseen_word_count_dict
               /\ w \in DOMAIN unseen_word_dict
                     => unseen_word_dict[w] = Zeros(EmbeddingDim)

\* Finalization is over, the window is not 0, one OOV token sits beside a
\* covered one and has its count while another met only OOV neighbours.
C9_Witness ==
    /\ pc = "done" /\ window_size > 0
    /\ unseen_word_count_dict # EmptyDict
    /\ \E w \in DOMAIN unseen_word_dict :
          /\ OnlyOOVNeighbours(w)
          /\ \E sp \in SentencePlaces :
                Len(SentenceAt(sp)) >= 2 /\ w \in Range(SentenceAt(sp))

\* ---- C10
\* C10: every key of unseen_word_count_dict is a key of unseen_word_dict,
\* every recorded count is at least 1, and no key of either map is a key of
\* the pretrained table; so the division of the finalization is by a count
\* of at least 1.
C10_AccumulatorInvariant ==
    /\ DOMAIN unseen_word_count_dict \subseteq DOMAIN unseen_word_dict
    /\ \A w \in DOMAIN unseen_word_count_dict : unseen_word_count_dict[w] >= 1
    /\ (DOMAIN unseen_word_dict \cup DOMAIN unseen_word_count_dict)
           \cap DOMAIN word2vec = {}
    /\ (pc = "finalize" /\ idx < Len(unseen_keys) /\ HasCount(FinalWord))
           => unseen_word_count_dict[FinalWord] # 0

\* The finalization is about to divide the sum of a token by its count,
\* and another token has a running sum and no count.
C10_Witness ==
    /\ pc = "finalize" /\ idx < Len(unseen_keys) /\ HasCount(FinalWord)
    /\ unseen_word_count_dict[FinalWord] >= 2
    /\ DOMAIN unseen_word_dict # DOMAIN unseen_word_count_dict

\* ---- C3
\* The examples the first n lines of a file stand for: one for each
\* non-header line with a recognized label, in file order.
RECURSIVE ExpectedExamples(_, _)
ExpectedExamples(file, n) ==
    IF n <= 1 THEN <<>>
    ELSE LET before == ExpectedExamples(file, n - 1)
         IN  IF file[n].label \in RecognizedLabels
                THEN Append(before,
                            <<StripBrackets(file[n].premise),
                              StripBrackets(file[n].hypothesis),
                              CASE file[n].label = "entailment" -> 0
                                [] file[n].label = "contradiction" -> 1
                                [] file[n].label = "neutral" -> 2>>)
                ELSE before

\* load of the k-th path has returned.
LoadReturned(k) ==
    \/ pc \in {"finalize", "done"}
    \/ pc = "load" /\ path > k
    \/ pc = "error" /\ err = "KeyError" /\ path > k

AllOf(file) == ExpectedExamples(file, Len(file))

\* C3: the list load returns holds, in file order, exactly one example for
\* each non-header line with a recognized label, none for a "-" line and
\* none for line 0 whatever it holds; and so does the list under
\* construction for the lines read so far.
C3_LoadedExamples ==
    /\ pc = "load" => data = ExpectedExamples(CurFile, idx)
    /\ LoadReturned(1) => train_data = AllOf(files["train"])
    /\ LoadReturned(2) => valid_data = AllOf(files["valid"])
    /\ LoadReturned(3) => test_data = AllOf(files["test"])

\* A file whose first line reads as a record, with a "-" line and a labelled
\* line after it, has been loaded into a list of one example.
C3_Witness ==
    /\ pc = "done"
    /\ \E p \in Range(Paths) :
          /\ Len(files[p]) = 3
          /\ files[p][1].label \in RecognizedLabels
          /\ files[p][2].label = "-"
          /\ files[p][3].label \in RecognizedLabels
    /\ Len(train_data) + Len(valid_data) + Len(test_data) = 1

\* ---- C7
ExamplesSoFar ==
    Range(data) \cup Range(train_data) \cup Range(valid_data) \cup Range(test_data)

\* C7: every token of the premise or hypothesis of an example is in
\* word_set, and neither "(" nor ")" is in word_set or in an example.
C7_VocabularyComplete ==
    /\ \A e \in ExamplesSoFar :
          /\ Range(e[1]) \cup Range(e[2]) \subseteq word_set
          /\ "(" \notin Range(e[1]) \cup Range(e[2])
          /\ ")" \notin Range(e[1]) \cup Range(e[2])
    /\ "(" \notin word_set /\ ")" \notin word_set

\* Construction is over with an example whose line held bracket tokens in
\* both sentences.
C7_Witness ==
    /\ pc = "done"
    /\ \E p \in Range(Paths) :
          /\ Len(files[p]) >= 2
          /\ files[p][2].label \in RecognizedLabels
          /\ "(" \in Range(files[p][2].premise)
          /\ ")" \in Range(files[p][2].hypothesis)
    /\ train_data # <<>>

\* ---- C8
\* The lines of the pretrained file whose word is in the Vocabulary.
RetainedGloveLines(n) == {i \in 1..n : glove[i].word \in word_set}

GloveReturned ==
    pc \in {"load", "finalize", "done"} \/ (pc = "error" /\ err = "KeyError")

GloveEnded == GloveReturned \/ pc = "error"

\* C8: the key set of the table get_glove returns is the set of Vocabulary
\* words that are the first field of some line (of the lines read so far,
\* while it runs); get_glove fails on a malformed vector exactly when a
\* line it retains has one, never for a line it discards.
C8_GloveTable ==
    /\ (pc = "get_glove" \/ GloveEnded) =>
          LET n == IF pc = "get_glove" \/ err = "ValueError" THEN idx ELSE Len(glove)
          IN  DOMAIN word2vec = {glove[i].word : i \in RetainedGloveLines(n)}
    /\ GloveReturned => \A i \in RetainedGloveLines(Len(glove)) : glove[i].ok
    /\ GloveEnded =>
          (err = "ValueError" <=>
              \E i \in RetainedGloveLines(Len(glove)) : ~glove[i].ok)

\* get_glove has returned a table with an entry, having discarded a line
\* whose vector does not parse.
C8_Witness ==
    /\ GloveReturned
    /\ word2vec # EmptyDict
    /\ \E i \in 1..Len(glove) : ~glove[i].ok

\* ---- C4
\* load is at a non-header line whose label is neither "-" nor recognized.
AtUnknownLabel ==
    /\ pc = "load" /\ idx >= 1 /\ idx < Len(CurFile)
    /\ CurLine.label \notin RecognizedLabels \cup {"-"}

TokensOf(line) ==
    Range(StripBrackets(line.premise)) \cup Range(StripBrackets(line.hypothesis))

\* The tokens of the records with a recognized label.
RetainedTokens == UNION {Range(SentenceAt(sp)) : sp \in SentencePlaces}

NoExampleNoAccumulation ==
    /\ pc' = "error" /\ err' = "KeyError"
    /\ data' = data
    /\ train_data' = train_data /\ valid_data' = valid_data
    /\ test_data' = test_data
    /\ unseen_word_dict' = unseen_word_dict
    /\ unseen_keys' = unseen_keys
    /\ unseen_word_count_dict' = unseen_word_count_dict

\* C4 as claimed: a record with an unknown label fails, produces no example,
\* and none of its tokens are added to the Vocabulary or to the accumulator:
\* a token of it is in word_set only if a record with a recognized label
\* holds it too.
C4_UnknownLabelAddsNothing ==
    [][AtUnknownLabel =>
          /\ NoExampleNoAccumulation
          /\ \A t \in TokensOf(CurLine) : t \in word_set' => t \in RetainedTokens
      ]_vars

\* C4 as amended: load fails at a record with an unknown label, with no
\* example for it and the accumulator untouched; every token of the record
\* is in word_set all the same, build_word_set having added it.
C4_UnknownLabelFailsLoad ==
    [][AtUnknownLabel =>
          /\ NoExampleNoAccumulation
          /\ TokensOf(CurLine) \subseteq word_set'
      ]_vars

\* load has failed at a record that holds a token neither pretrained nor
\* accumulated, after a record that did accumulate.
C4_Witness ==
    /\ pc = "error" /\ err = "KeyError"
    /\ unseen_word_dict # EmptyDict
    /\ \E t \in TokensOf(CurLine) :
          t \notin DOMAIN word_embeds /\ t \notin DOMAIN unseen_word_dict

\* ---- C5
\* C5: word_embeds is the table get_glove returned all through the scan; it
\* is written in the finalization only, after the three loads, and each
\* OOV token's entry is written exactly once.
C5_EmbeddingWrittenOncePerOOV ==
    /\ pc = "load" => word_embeds = word2vec
    /\ embed_writes # EmptyDict => pc \in {"finalize", "done"}
    /\ (GloveReturned /\ word_embeds # word2vec) => pc \in {"finalize", "done"}
    /\ \A w \in DOMAIN embed_writes : embed_writes[w] = 1
    /\ pc = "done" =>
          \A w \in word_set : OOV(w) => w \in DOMAIN embed_writes

\* ---- C6
\* The records load scans, in the order train, valid, test.
RetainedOf(file) ==
    SelectSeq(Tail(file), LAMBDA l : l.label \in RecognizedLabels)

ScannedRecords ==
    RetainedOf(files["train"]) \o RetainedOf(files["valid"])
        \o RetainedOf(files["test"])

ScanOrders(n) ==
    {f \in [1..n -> 1..n] : \A i, j \in 1..n : f[i] = f[j] => i = j}

\* The scan of a list of records from an accumulator on.
RECURSIVE ScanAll(_, _, _, _)
ScanAll(recs, ws, acc, we) ==
    IF recs = <<>> THEN acc
    ELSE Then(ScanRecord(Head(recs), ws, acc, we),
              LAMBDA a : ScanAll(Tail(recs), ws, a, we))

\* The table the finalization makes of an accumulator.
TableOf(acc) ==
    [w \in DOMAIN word2vec \cup DOMAIN acc.count |->
        IF w \in DOMAIN acc.count THEN VecDiv(acc.dict[w], acc.count[w])
                                  ELSE word2vec[w]]

Next ==
    \/ BuildSkipHeader \/ BuildSkipDash \/ BuildAddWords \/ BuildEndOfFile
    \/ GloveDiscard \/ GloveStore \/ GloveMalformed \/ GloveZeroDivision
    \/ GloveReturn
    \/ LoadSkipHeader \/ LoadSkipDash \/ LoadUnknownLabel \/ LoadAppend
    \/ LoadReturn
    \/ FinalizeAverage \/ FinalizePrint \/ GetTotalReturn

Spec == Init /\ [][Next]_vars
====
